---- MODULE Spec2Model ----
(***************************************************************************)
(* Ledger of credit notes (notas) and commitments (empenhos):              *)
(* DataService over PostgreSQL plus the Streamlit form handlers of app.py. *)
(* Amounts are integer cents.  Every DataService method runs one           *)
(* transaction on its own connection (READ COMMITTED): other callers see   *)
(* only committed rows, so the model keeps the committed tables in the     *)
(* variables and each caller's uncommitted statements in tx[c].            *)
(***************************************************************************)
EXTENDS Integers, FiniteSets, Sequences, TLC

\* ---------------------------------------------------------------- bounds
MaxValor == 2
MaxId == 2

\* ------------------------------------------------------------- universes
Callers == {"u1", "u2"}
NotaNumeros == {"NC000001", "NC000002"}
PlanoCodigos == {"PI001"}
NaturezaCodigos == {"339039"}
SecaoCodigos == {"SR001"}
NULL == "NULL"
Valores == 0..(MaxValor + 1)

VARIABLES
    planos,     \* planos_internos: set of codigo
    naturezas,  \* naturezas_despesa: codigo -> plano_interno_codigo
    secoes,     \* secoes_requisitantes: set of codigo
    notas,      \* notas: numero -> row
    empenhos,   \* empenhos: id -> row
    seq,        \* last value drawn from the SERIAL sequence of empenhos.id
    pc,         \* each caller's position in its handler
    form,       \* what the caller's page loaded ("Registrar Empenho")
    tx,         \* the caller's open transaction: its uncommitted statements
    msg,        \* the message the last step showed to its caller, if any
    rt          \* history: per note, the commitment last created on it from an
                \* up-to-date copy ("criado") and then deleted ("desfeito"),
                \* with the note's state just before the creation; forgotten
                \* at any other write to the note

vars == <<planos, naturezas, secoes, notas, empenhos, seq, pc, form, tx, msg, rt>>
db == <<planos, naturezas, secoes, notas, empenhos>>

NoForm == [tipo |-> "none"]
NoTx == [tipo |-> "none"]
NoRT == [fase |-> "nenhum"]
EmptyFn == [x \in {} |-> 0]
NoMsg == "none"

\* ------------------------------------------------------------ row locks
\* UPDATE notas ... takes the row lock of the note until commit or rollback.
UpdateLocked(n, c) ==
    \E d \in DOMAIN pc \ {c} :
        /\ pc[d] = "del_updated"
        /\ tx[d].numero_nota = n
        /\ tx[d].atualizou

\* INSERT INTO empenhos holds a key-share lock on the referenced note row.
KeyShared(n, c) ==
    \E d \in DOMAIN pc \ {c} :
        /\ pc[d] = "emp_inserted"
        /\ tx[d].numero_nota = n

\* ... and on the referenced section row.
SecaoKeyShared(s, c) ==
    \E d \in DOMAIN pc \ {c} :
        /\ pc[d] = "emp_inserted"
        /\ tx[d].secao_requisitante_codigo = s

NotaLocked(n, c) == UpdateLocked(n, c) \/ KeyShared(n, c)

\* ---------------------------------------------------------------- helpers
Restrict(f, S) == [x \in S |-> f[x]]

EmpenhosDe(emps, n) == {e \in DOMAIN emps : emps[e].numero_nota = n}

\* (variant: the foreign key of empenhos without ON DELETE CASCADE)
CascadeSemEmpenhos(N) ==
    /\ notas' = Restrict(notas, DOMAIN notas \ N)
    /\ rt' = [n \in NotaNumeros |-> IF n \in N THEN NoRT ELSE rt[n]]
    /\ empenhos' = empenhos

\* ON DELETE CASCADE from notas to empenhos.
CascadeNotas(N) ==
    /\ notas' = Restrict(notas, DOMAIN notas \ N)
    /\ rt' = [n \in NotaNumeros |-> IF n \in N THEN NoRT ELSE rt[n]]
    /\ empenhos' = Restrict(empenhos,
            {e \in DOMAIN empenhos : empenhos[e].numero_nota \notin N})

\* The sessions and the ledger tables at start.
InitLedger ==
    /\ notas = EmptyFn
    /\ empenhos = EmptyFn
    /\ seq = 0
    /\ pc = [c \in Callers |-> "idle"]
    /\ form = [c \in Callers |-> NoForm]
    /\ tx = [c \in Callers |-> NoTx]
    /\ msg = NoMsg
    /\ rt = [n \in NotaNumeros |-> NoRT]

\* First start: init_db has created the tables, all empty.
InitVazio ==
    /\ planos = {}
    /\ naturezas = EmptyFn
    /\ secoes = {}
    /\ InitLedger

\* A later start (CREATE TABLE IF NOT EXISTS keeps the rows): the reference
\* data was registered before, the ledger is still empty.
Init ==
    /\ planos = PlanoCodigos
    /\ naturezas = [nd \in NaturezaCodigos |-> CHOOSE p \in PlanoCodigos : TRUE]
    /\ secoes = SecaoCodigos
    /\ InitLedger

\* The handler ends: the message it shows, and the session back at the menu.
Done(c, res) ==
    /\ pc' = [pc EXCEPT ![c] = "idle"]
    /\ form' = [form EXCEPT ![c] = NoForm]
    /\ tx' = [tx EXCEPT ![c] = NoTx]
    /\ msg' = res

\* ------------------------------------------------------- connection pool
\* ThreadedConnectionPool(minconn=1, maxconn=3).
maxconn == 3

\* The connections checked out of the pool: get_connection at the start of a
\* DataService method, release_connection in its finally clause.
EmUso == {c \in DOMAIN tx : tx[c].tipo # "none"}

\* (variant: the pool hands out connections without limit)
PoolSemLimite == FALSE

\* getconn() with maxconn connections checked out raises PoolError, a
\* psycopg2.Error, at once.
PoolEsgotado == Cardinality(EmUso) >= maxconn

\* get_connection re-raises it as Exception("Nao foi possivel conectar ao
\* banco"), before the try block of the calling method: nothing was written,
\* nothing is released, the session shows the error.
SemConexao(c) == Done(c, "sem_conexao")

\* ------------------------------------------------------- reference data
\* except psycopg2.IntegrityError: ValueError("... '<key>' ja existe."), the
\* message the handler shows; it names the key of the row being inserted.
JaExiste(chave) == "ja_existe " \o chave

\* (variant: the table declared without PRIMARY KEY)
ChaveDuplicadaNunca(chave, chaves) == FALSE

\* The PRIMARY KEY check of an INSERT.
ChaveDuplicada(chave, chaves) == chave \in chaves

save_plano_interno(c, p) ==
    /\ pc[c] = "idle"
    /\ IF PoolEsgotado
       THEN /\ UNCHANGED <<db, rt>>
            /\ SemConexao(c)
       ELSE IF ChaveDuplicada(p, planos)
       THEN /\ UNCHANGED <<db, rt>>
            /\ Done(c, JaExiste(p))
       ELSE /\ planos' = planos \cup {p}
            /\ UNCHANGED <<naturezas, secoes, notas, empenhos, rt>>
            /\ Done(c, "sucesso")
    /\ UNCHANGED seq

save_natureza_despesa(c, nd, p) ==
    /\ pc[c] = "idle"
    /\ IF PoolEsgotado
       THEN /\ UNCHANGED <<db, rt>>
            /\ SemConexao(c)
       ELSE IF ChaveDuplicada(nd, DOMAIN naturezas) \/ p \notin planos
       THEN /\ UNCHANGED <<db, rt>>
            /\ Done(c, JaExiste(nd))
       ELSE /\ naturezas' = [x \in DOMAIN naturezas \cup {nd} |->
                                IF x = nd THEN p ELSE naturezas[x]]
            /\ UNCHANGED <<planos, secoes, notas, empenhos, rt>>
            /\ Done(c, "sucesso")
    /\ UNCHANGED seq

save_secao_requisitante(c, s) ==
    /\ pc[c] = "idle"
    /\ IF PoolEsgotado
       THEN /\ UNCHANGED <<db, rt>>
            /\ SemConexao(c)
       ELSE IF ChaveDuplicada(s, secoes)
       THEN /\ UNCHANGED <<db, rt>>
            /\ Done(c, JaExiste(s))
       ELSE /\ secoes' = secoes \cup {s}
            /\ UNCHANGED <<planos, naturezas, notas, empenhos, rt>>
            /\ Done(c, "sucesso")
    /\ UNCHANGED seq

\* (variant: notas.plano_interno_codigo the only cascading key of notas)
NotasSoDoPlano(p) ==
    {n \in DOMAIN notas : notas[n].plano_interno_codigo = p}

\* The notes the DELETE of plan p reaches: through their own plan key and
\* through the natures of p (both keys of notas are ON DELETE CASCADE).
NotasDoPlano(p) ==
    {n \in DOMAIN notas :
        \/ notas[n].plano_interno_codigo = p
        \/ /\ notas[n].natureza_despesa_codigo \in DOMAIN naturezas
           /\ naturezas[notas[n].natureza_despesa_codigo] = p}

delete_plano_interno(c, p) ==
    LET nds == {x \in DOMAIN naturezas : naturezas[x] = p}
        N == NotasDoPlano(p)
    IN /\ pc[c] = "idle"
       /\ UNCHANGED <<secoes, seq>>
       /\ IF PoolEsgotado
          THEN /\ UNCHANGED <<planos, naturezas, notas, empenhos, rt>>
               /\ SemConexao(c)
          ELSE /\ \A n \in N : ~NotaLocked(n, c)
               /\ planos' = planos \ {p}
               /\ naturezas' = Restrict(naturezas, DOMAIN naturezas \ nds)
               /\ CascadeNotas(N)
               /\ Done(c, "sucesso")

delete_natureza_despesa(c, nd) ==
    LET N == {n \in DOMAIN notas : notas[n].natureza_despesa_codigo = nd}
    IN /\ pc[c] = "idle"
       /\ UNCHANGED <<planos, secoes, seq>>
       /\ IF PoolEsgotado
          THEN /\ UNCHANGED <<naturezas, notas, empenhos, rt>>
               /\ SemConexao(c)
          ELSE /\ \A n \in N : ~NotaLocked(n, c)
               /\ naturezas' = Restrict(naturezas, DOMAIN naturezas \ {nd})
               /\ CascadeNotas(N)
               /\ Done(c, "sucesso")

\* (variant: the section key of empenhos declared ON DELETE CASCADE)
SecaoCascade(emps, s) ==
    Restrict(emps, {e \in DOMAIN emps : emps[e].secao_requisitante_codigo # s})

\* ON DELETE SET NULL from secoes_requisitantes to empenhos.
SecaoSetNull(emps, s) ==
    [e \in DOMAIN emps |->
        IF emps[e].secao_requisitante_codigo = s
        THEN [emps[e] EXCEPT !.secao_requisitante_codigo = NULL]
        ELSE emps[e]]

delete_secao_requisitante(c, s) ==
    /\ pc[c] = "idle"
    /\ UNCHANGED <<planos, naturezas, notas, seq, rt>>
    /\ IF PoolEsgotado
       THEN /\ UNCHANGED <<secoes, empenhos>>
            /\ SemConexao(c)
       ELSE /\ ~SecaoKeyShared(s, c)
            /\ secoes' = secoes \ {s}
            /\ empenhos' = SecaoSetNull(empenhos, s)
            /\ Done(c, "sucesso")

\* ------------------------------------------------------------------ notes
\* (variant: the balance of a new note left at zero)
NovaNotaSemSaldo(valor_float, nd, p) ==
    [valor |-> valor_float, valor_restante |-> 0,
     natureza_despesa_codigo |-> nd, plano_interno_codigo |-> p]

\* The row the "Adicionar Nota" handler builds from the parsed value.
NovaNota(valor_float, nd, p) ==
    [valor |-> valor_float, valor_restante |-> valor_float,
     natureza_despesa_codigo |-> nd, plano_interno_codigo |-> p]

\* (variant: notas declared without its two FOREIGN KEY clauses)
save_nota_sem_fk(c, numero, nota) ==
    IF ChaveDuplicada(numero, DOMAIN notas)
    THEN /\ UNCHANGED <<db, rt>>
         /\ Done(c, JaExiste(numero))
    ELSE /\ notas' = [x \in DOMAIN notas \cup {numero} |->
                         IF x = numero THEN nota ELSE notas[x]]
         /\ UNCHANGED <<planos, naturezas, secoes, empenhos, rt>>
         /\ Done(c, "sucesso")

\* INSERT INTO notas: primary key and both foreign keys.
save_nota(c, numero, nota) ==
    IF PoolEsgotado
    THEN /\ UNCHANGED <<db, rt>>
         /\ SemConexao(c)
    ELSE IF \/ ChaveDuplicada(numero, DOMAIN notas)
            \/ nota.natureza_despesa_codigo \notin DOMAIN naturezas
            \/ nota.plano_interno_codigo \notin planos
    THEN /\ UNCHANGED <<db, rt>>
         /\ Done(c, JaExiste(numero))
    ELSE /\ notas' = [x \in DOMAIN notas \cup {numero} |->
                         IF x = numero THEN nota ELSE notas[x]]
         /\ UNCHANGED <<planos, naturezas, secoes, empenhos, rt>>
         /\ Done(c, "sucesso")

AdicionarNota(c, numero, valor_float, nd, p) ==
    /\ pc[c] = "idle"
    /\ IF valor_float <= 0
       THEN /\ UNCHANGED <<db, rt>>
            /\ Done(c, "valor_invalido")
       ELSE save_nota(c, numero, NovaNota(valor_float, nd, p))
    /\ UNCHANGED seq

\* The widgets of the "Adicionar Nota" form as the submit run evaluates them:
\* the plan chosen among the plans loaded, then load_naturezas_despesa(plano)
\* and the nature chosen among the natures of that plan.
SelecionarPlanoNatureza(c, p, nd) ==
    /\ pc[c] = "idle"
    /\ UNCHANGED <<db, seq, rt>>
    /\ IF PoolEsgotado
       THEN SemConexao(c)
       ELSE /\ p \in planos
            /\ nd \in DOMAIN naturezas
            /\ naturezas[nd] = p
            /\ pc' = [pc EXCEPT ![c] = "nota_selecionada"]
            /\ form' = [form EXCEPT ![c] =
                    [tipo |-> "nota", plano_codigo |-> p, natureza_codigo |-> nd]]
            /\ msg' = NoMsg
            /\ UNCHANGED tx

\* ... and the rest of the submit run: the value check, the row built from
\* the two selections, save_nota on a connection of its own.
SalvarNota(c, numero, valor_float) ==
    /\ pc[c] = "nota_selecionada"
    /\ IF valor_float <= 0
       THEN /\ UNCHANGED <<db, rt>>
            /\ Done(c, "valor_invalido")
       ELSE save_nota(c, numero, NovaNota(valor_float, form[c].natureza_codigo,
                                          form[c].plano_codigo))
    /\ UNCHANGED seq

delete_nota(c, numero_nota) ==
    /\ UNCHANGED <<planos, naturezas, secoes>>
    /\ IF PoolEsgotado
       THEN /\ UNCHANGED <<notas, empenhos, rt>>
            /\ SemConexao(c)
       ELSE /\ ~NotaLocked(numero_nota, c)
            /\ CascadeNotas({numero_nota})
            /\ Done(c, "sucesso")

\* (variant: the confirmation checkbox ignored)
ConfirmarExclusaoSempre(marcado) == TRUE

\* st.checkbox("Confirmar exclusao ..."): the value the handler branches on.
ConfirmarExclusao(marcado) == marcado

DeletarNota(c, numero_nota, confirmar) ==
    /\ pc[c] = "idle"
    /\ IF ConfirmarExclusao(confirmar)
       THEN delete_nota(c, numero_nota)
       ELSE /\ UNCHANGED <<db, rt>>
            /\ Done(c, "aviso_confirmacao")
    /\ UNCHANGED seq

\* ------------------------------------------------------------ commitments
\* "Registrar Empenho": the page loads the notes and the sections ...
CarregarFormEmpenho(c) ==
    /\ pc[c] = "idle"
    /\ UNCHANGED <<db, seq, rt>>
    /\ IF PoolEsgotado
       THEN SemConexao(c)
       ELSE /\ DOMAIN notas # {}
            /\ secoes # {}
            /\ pc' = [pc EXCEPT ![c] = "form_empenho"]
            /\ form' = [form EXCEPT ![c] =
                    [tipo |-> "empenho",
                     notas |-> [n \in DOMAIN notas |-> notas[n].valor_restante],
                     secoes |-> secoes]]
            /\ msg' = NoMsg
            /\ UNCHANGED tx

\* (variant: the value subtracted twice)
NovoRestanteDuplo(restante_carregado, valor_float) ==
    restante_carregado - valor_float - valor_float

\* The balance the handler computes from the note it loaded.
NovoRestante(restante_carregado, valor_float) == restante_carregado - valor_float

\* (variant: >= in place of >)
ExcedeSaldoOuIgual(valor_float, restante_carregado) ==
    valor_float >= restante_carregado

\* (variant: the balance check left out)
ExcedeSaldoNunca(valor_float, restante_carregado) == FALSE

\* The handler's balance check, on the note it loaded.
ExcedeSaldo(valor_float, restante_carregado) == valor_float > restante_carregado

\* ... and on submit validates against the loaded note and calls save_empenho,
\* whose INSERT draws the next id and checks both foreign keys.
RegistrarEmpenho(c, numero_nota, secao_codigo, valor_float) ==
    /\ pc[c] = "form_empenho"
    /\ numero_nota \in DOMAIN form[c].notas
    /\ secao_codigo \in form[c].secoes
    /\ UNCHANGED <<db, rt>>
    /\ IF valor_float <= 0
       THEN /\ Done(c, "valor_invalido")
            /\ UNCHANGED seq
       ELSE IF ExcedeSaldo(valor_float, form[c].notas[numero_nota])
       THEN /\ Done(c, "excede_saldo")
            /\ UNCHANGED seq
       ELSE IF PoolEsgotado
       THEN /\ SemConexao(c)
            /\ UNCHANGED seq
       ELSE /\ seq < MaxId
            /\ seq' = seq + 1
            /\ IF numero_nota \in DOMAIN notas /\ secao_codigo \in secoes
               THEN /\ pc' = [pc EXCEPT ![c] = "emp_inserted"]
                    /\ tx' = [tx EXCEPT ![c] =
                          [tipo |-> "save_empenho",
                           id |-> seq + 1,
                           numero_nota |-> numero_nota,
                           valor |-> valor_float,
                           secao_requisitante_codigo |-> secao_codigo,
                           carregado |-> form[c].notas[numero_nota],
                           valor_restante |->
                               NovoRestante(form[c].notas[numero_nota], valor_float)]]
                    /\ msg' = NoMsg
                    /\ UNCHANGED form
               ELSE Done(c, "erro")

\* (variant: the UPDATE of save_empenho without its WHERE clause)
save_empenho_commit_sem_where(c) ==
    /\ pc[c] = "emp_inserted"
    /\ ~UpdateLocked(tx[c].numero_nota, c)
    /\ empenhos' = [e \in DOMAIN empenhos \cup {tx[c].id} |->
            IF e = tx[c].id
            THEN [numero_nota |-> tx[c].numero_nota, valor |-> tx[c].valor,
                  secao_requisitante_codigo |-> tx[c].secao_requisitante_codigo]
            ELSE empenhos[e]]
    /\ notas' = [n \in DOMAIN notas |->
                    [notas[n] EXCEPT !.valor_restante = tx[c].valor_restante]]
    /\ rt' = [rt EXCEPT ![tx[c].numero_nota] = NoRT]
    /\ UNCHANGED <<planos, naturezas, secoes, seq>>
    /\ Done(c, "sucesso")

\* UPDATE notas SET valor_restante = %s, then commit of both writes.
save_empenho_commit(c) ==
    /\ pc[c] = "emp_inserted"
    /\ ~UpdateLocked(tx[c].numero_nota, c)
    /\ empenhos' = [e \in DOMAIN empenhos \cup {tx[c].id} |->
            IF e = tx[c].id
            THEN [numero_nota |-> tx[c].numero_nota, valor |-> tx[c].valor,
                  secao_requisitante_codigo |-> tx[c].secao_requisitante_codigo]
            ELSE empenhos[e]]
    /\ notas' = [notas EXCEPT ![tx[c].numero_nota].valor_restante =
                                   tx[c].valor_restante]
    /\ rt' = [rt EXCEPT ![tx[c].numero_nota] =
            IF tx[c].carregado = notas[tx[c].numero_nota].valor_restante
            THEN [fase |-> "criado",
                  id |-> tx[c].id,
                  valor_restante |-> notas[tx[c].numero_nota].valor_restante,
                  ids |-> EmpenhosDe(empenhos, tx[c].numero_nota)]
            ELSE NoRT]
    /\ UNCHANGED <<planos, naturezas, secoes, seq>>
    /\ Done(c, "sucesso")

\* (variant: ValueError raised with no finally clause, the connection kept)
EmpenhoNaoEncontradoSemRelease(c, empenho_id) ==
    /\ pc' = [pc EXCEPT ![c] = "idle"]
    /\ form' = [form EXCEPT ![c] = NoForm]
    /\ tx' = [tx EXCEPT ![c] = [tipo |-> "delete_empenho", id |-> empenho_id]]
    /\ msg' = "nao_encontrado"

\* fetchone() returns no row: ValueError("Empenho nao encontrado."), logged,
\* re-raised, the connection released, the message shown by the handler.
EmpenhoNaoEncontrado(c, empenho_id) == Done(c, "nao_encontrado")

\* "Deletar Empenho" and the SELECT of delete_empenho.
DeletarEmpenho(c, empenho_id, confirmar) ==
    /\ pc[c] = "idle"
    /\ UNCHANGED <<db, seq, rt>>
    /\ IF ~ConfirmarExclusao(confirmar)
       THEN Done(c, "aviso_confirmacao")
       ELSE IF PoolEsgotado
       THEN SemConexao(c)
       ELSE IF empenho_id \notin DOMAIN empenhos
       THEN EmpenhoNaoEncontrado(c, empenho_id)
       ELSE /\ pc' = [pc EXCEPT ![c] = "del_selected"]
            /\ tx' = [tx EXCEPT ![c] =
                  [tipo |-> "delete_empenho",
                   id |-> empenho_id,
                   numero_nota |-> empenhos[empenho_id].numero_nota,
                   valor |-> empenhos[empenho_id].valor,
                   atualizou |-> FALSE]]
            /\ msg' = NoMsg
            /\ UNCHANGED form

\* UPDATE notas SET valor_restante = valor_restante + %s (uncommitted).
delete_empenho_update(c) ==
    /\ pc[c] = "del_selected"
    /\ ~UpdateLocked(tx[c].numero_nota, c)
    /\ pc' = [pc EXCEPT ![c] = "del_updated"]
    /\ tx' = [tx EXCEPT ![c].atualizou = (tx[c].numero_nota \in DOMAIN notas)]
    /\ msg' = NoMsg
    /\ UNCHANGED <<db, seq, form, rt>>

\* (variant: the UPDATE of delete_empenho left out)
DevolvidoNada(valor_empenho) == 0

\* The amount the UPDATE of delete_empenho adds to the stored balance.
Devolvido(valor_empenho) == valor_empenho

\* DELETE FROM empenhos WHERE id = %s, then commit of both writes.
delete_empenho_commit(c) ==
    /\ pc[c] = "del_updated"
    /\ notas' = IF tx[c].atualizou
                THEN [notas EXCEPT ![tx[c].numero_nota].valor_restante =
                                       @ + Devolvido(tx[c].valor)]
                ELSE notas
    /\ empenhos' = Restrict(empenhos, DOMAIN empenhos \ {tx[c].id})
    /\ rt' = [rt EXCEPT ![tx[c].numero_nota] =
            IF @.fase = "criado" /\ @.id = tx[c].id /\ tx[c].id \in DOMAIN empenhos
            THEN [@ EXCEPT !.fase = "desfeito"]
            ELSE NoRT]
    /\ UNCHANGED <<planos, naturezas, secoes, seq>>
    /\ Done(c, "sucesso")

\* (variant: autocommit, the INSERT of save_empenho survives the failure)
RollbackSemInsert(c) ==
    /\ pc[c] \in {"emp_inserted", "del_selected", "del_updated"}
    /\ empenhos' = IF pc[c] = "emp_inserted"
                   THEN [e \in DOMAIN empenhos \cup {tx[c].id} |->
                           IF e = tx[c].id
                           THEN [numero_nota |-> tx[c].numero_nota,
                                 valor |-> tx[c].valor,
                                 secao_requisitante_codigo |->
                                     tx[c].secao_requisitante_codigo]
                           ELSE empenhos[e]]
                   ELSE empenhos
    /\ UNCHANGED <<planos, naturezas, secoes, notas, seq, rt>>
    /\ Done(c, "erro")

\* (variant: the error path without the finally clause, the connection kept)
RollbackSemRelease(c) ==
    /\ pc[c] \in {"emp_inserted", "del_selected", "del_updated"}
    /\ pc' = [pc EXCEPT ![c] = "idle"]
    /\ msg' = "erro"
    /\ UNCHANGED <<db, seq, rt, form, tx>>

\* A statement fails or the process dies inside a transaction: the
\* uncommitted writes are rolled back.
Rollback(c) ==
    /\ pc[c] \in {"emp_inserted", "del_selected", "del_updated"}
    /\ UNCHANGED <<db, seq, rt>>
    /\ Done(c, "erro")

\* ----------------------------------------------------------- specification
\* Registration of reference data by the callers Cs.
Cadastros(Cs) ==
    \/ \E c \in Cs, p \in PlanoCodigos : save_plano_interno(c, p)
    \/ \E c \in Cs, nd \in NaturezaCodigos, p \in PlanoCodigos :
          save_natureza_despesa(c, nd, p)
    \/ \E c \in Cs, s \in SecaoCodigos : save_secao_requisitante(c, s)

\* The ledger operations and the deletions of reference data, by the callers
\* Cs on the note numbers Ns.
Ledger(Cs, Ns) ==
    \/ \E c \in Cs, p \in PlanoCodigos : delete_plano_interno(c, p)
    \/ \E c \in Cs, nd \in NaturezaCodigos : delete_natureza_despesa(c, nd)
    \/ \E c \in Cs, s \in SecaoCodigos : delete_secao_requisitante(c, s)
    \/ \E c \in Cs, n \in Ns, v \in 0..MaxValor,
         nd \in NaturezaCodigos, p \in PlanoCodigos : AdicionarNota(c, n, v, nd, p)
    \/ \E c \in Cs, n \in Ns, b \in BOOLEAN : DeletarNota(c, n, b)
    \/ \E c \in Cs : CarregarFormEmpenho(c)
    \/ \E c \in Cs, n \in Ns, s \in SecaoCodigos, v \in Valores :
          RegistrarEmpenho(c, n, s, v)
    \/ \E c \in Cs : save_empenho_commit(c)
    \/ \E c \in Cs, id \in 1..MaxId, b \in BOOLEAN : DeletarEmpenho(c, id, b)
    \/ \E c \in Cs : delete_empenho_update(c)
    \/ \E c \in Cs : delete_empenho_commit(c)
    \/ \E c \in Cs : Rollback(c)

\* Two concurrent callers working on one note number, reference data registered.
Next == Ledger(Callers, {"NC000001"})

Spec == Init /\ [][Next]_vars

\* One caller, from the empty database, working on two note numbers.
NextSeq == Cadastros({"u1"}) \/ Ledger({"u1"}, NotaNumeros)

SpecSeq == InitVazio /\ [][NextSeq]_vars

\* Two plans, each with one nature, and two sections, all registered; the
\* ledger still empty.
PlanosRef == {"PI001", "PI002"}
NaturezasRef == {"339039", "339030"}
SecoesRef == {"SR001", "SR002"}

InitRef ==
    /\ planos = PlanosRef
    /\ naturezas = [nd \in NaturezasRef |->
                       IF nd = "339039" THEN "PI001" ELSE "PI002"]
    /\ secoes = SecoesRef
    /\ InitLedger

\* One caller fills the ledger and deletes reference data.
NextRef ==
    \/ \E p \in PlanosRef : delete_plano_interno("u1", p)
    \/ \E nd \in NaturezasRef : delete_natureza_despesa("u1", nd)
    \/ \E s \in SecoesRef : delete_secao_requisitante("u1", s)
    \/ \E n \in NotaNumeros, nd \in NaturezasRef, p \in PlanosRef :
          AdicionarNota("u1", n, MaxValor, nd, p)
    \/ CarregarFormEmpenho("u1")
    \/ \E n \in NotaNumeros, s \in SecoesRef :
          RegistrarEmpenho("u1", n, s, 1)
    \/ save_empenho_commit("u1")

SpecRef == InitRef /\ [][NextRef]_vars

\* Four sessions on one DataService and its pool of maxconn connections, one
\* note of value MaxValor stored; two of the sessions create commitments of
\* value 1, all four delete commitments.
Sessoes == Callers \cup {"u3", "u4"}

InitPool ==
    /\ planos = PlanoCodigos
    /\ naturezas = [nd \in NaturezaCodigos |-> CHOOSE p \in PlanoCodigos : TRUE]
    /\ secoes = SecaoCodigos
    /\ notas = [n \in {"NC000001"} |->
            NovaNota(MaxValor, CHOOSE nd \in NaturezaCodigos : TRUE,
                     CHOOSE p \in PlanoCodigos : TRUE)]
    /\ empenhos = EmptyFn
    /\ seq = 0
    /\ pc = [c \in Sessoes |-> "idle"]
    /\ form = [c \in Sessoes |-> NoForm]
    /\ tx = [c \in Sessoes |-> NoTx]
    /\ msg = NoMsg
    /\ rt = [n \in NotaNumeros |-> NoRT]

NextPool ==
    \/ \E c \in Callers : CarregarFormEmpenho(c)
    \/ \E c \in Callers, s \in SecaoCodigos : RegistrarEmpenho(c, "NC000001", s, 1)
    \/ \E c \in Callers : save_empenho_commit(c)
    \/ \E c \in Sessoes, id \in 1..MaxId : DeletarEmpenho(c, id, TRUE)
    \/ \E c \in Sessoes : delete_empenho_update(c)
    \/ \E c \in Sessoes : delete_empenho_commit(c)
    \/ \E c \in Sessoes : Rollback(c)

SpecPool == InitPool /\ [][NextPool]_vars

\* ----------------------------------------------------------------- report
\* generate_excel_report, generate_pdf_report and "Visualizar Relatorio" read
\* the five tables by five load calls, each with its own connection and its
\* own transaction, and build the rows (and the two files the totals) from
\* the lists read.
NA == "N/A"

RECURSIVE Soma(_, _)
\* sum(f[x] for x in S), as the generator expressions of the totals.
Soma(f, S) ==
    IF S = {} THEN 0
    ELSE LET x == CHOOSE y \in S : TRUE IN f[x] + Soma(f, S \ {x})

\* (variant: the original values summed over the rows, not over the notes)
TotalValorPorLinha(ns, es) ==
    Soma([n \in DOMAIN ns |->
            IF EmpenhosDe(es, n) = {} THEN ns[n].valor
            ELSE ns[n].valor * Cardinality(EmpenhosDe(es, n))], DOMAIN ns)

\* total_valor_geral = sum(n["valor"] for n in notas)
TotalValor(ns, es) == Soma([n \in DOMAIN ns |-> ns[n].valor], DOMAIN ns)

\* total_restante_geral = sum(n["valor_restante"] for n in notas)
TotalRestante(ns) == Soma([n \in DOMAIN ns |-> ns[n].valor_restante], DOMAIN ns)

\* total_empenhado_geral = sum(e["valor"] for e in empenhos)
TotalEmpenhado(es) == Soma([e \in DOMAIN es |-> es[e].valor], DOMAIN es)

\* natureza = next((n for n in naturezas if ...), {"codigo": "N/A", ...})
NaturezaExibida(nota, nats) ==
    IF nota.natureza_despesa_codigo \in DOMAIN nats
    THEN nota.natureza_despesa_codigo ELSE NA

\* plano = the plan of the nature found, looked up in the plans read.
PlanoExibido(nota, nats, pls) ==
    IF /\ nota.natureza_despesa_codigo \in DOMAIN nats
       /\ nats[nota.natureza_despesa_codigo] \in pls
    THEN nats[nota.natureza_despesa_codigo] ELSE NA

\* secao = next((s for s in secoes if ...), {"codigo": "N/A"}) if the
\* commitment has a section code, else {"codigo": "N/A"}.
SecaoExibida(codigo, secs) ==
    IF codigo # NULL /\ codigo \in secs THEN codigo ELSE NA

\* The row of a note without commitments: "Nenhum", "" and "N/A".
LinhaSemEmpenho(n, nota, nats, pls) ==
    [plano |-> PlanoExibido(nota, nats, pls),
     natureza |-> NaturezaExibida(nota, nats),
     numero |-> n, valor |-> nota.valor, valor_restante |-> nota.valor_restante,
     valor_empenho |-> <<>>, secao |-> NA]

\* The row of one commitment of a note.
LinhaEmpenho(n, nota, empenho, nats, pls, secs) ==
    [plano |-> PlanoExibido(nota, nats, pls),
     natureza |-> NaturezaExibida(nota, nats),
     numero |-> n, valor |-> nota.valor, valor_restante |-> nota.valor_restante,
     valor_empenho |-> <<empenho.valor>>,
     secao |-> SecaoExibida(empenho.secao_requisitante_codigo, secs)]

\* (variant: the branch of the notes without commitments left out)
ChavesSoEmpenhos(ns, es) ==
    {<<es[e].numero_nota, e>> :
        e \in {x \in DOMAIN es : es[x].numero_nota \in DOMAIN ns}}

\* for nota in notas: related_empenhos = [e for e in empenhos if ...]; one row
\* if the list is empty (keyed here by id 0), else one row per commitment.
Chaves(ns, es) ==
    {<<n, 0>> : n \in {x \in DOMAIN ns : EmpenhosDe(es, x) = {}}}
    \cup {<<es[e].numero_nota, e>> :
            e \in {x \in DOMAIN es : es[x].numero_nota \in DOMAIN ns}}

\* data: the rows of the report.
Linhas(ns, es, nats, pls, secs) ==
    [k \in Chaves(ns, es) |->
        IF k[2] = 0
        THEN LinhaSemEmpenho(k[1], ns[k[1]], nats, pls)
        ELSE LinhaEmpenho(k[1], ns[k[1]], es[k[2]], nats, pls, secs)]

\* One load call of the report: load_data with its own connection.
Carregar(c, de, para, lido) ==
    /\ pc[c] \in de
    /\ UNCHANGED <<db, seq, rt>>
    /\ IF PoolEsgotado
       THEN SemConexao(c)
       ELSE /\ pc' = [pc EXCEPT ![c] = para]
            /\ form' = [form EXCEPT ![c] = lido]
            /\ msg' = NoMsg
            /\ UNCHANGED tx

\* notas = self.load_notas()
relatorio_load_notas(c) ==
    Carregar(c, {"idle", "relatorio"}, "rel_notas",
             [tipo |-> "relatorio", notas |-> notas])

\* empenhos = self.load_empenhos()
relatorio_load_empenhos(c) ==
    Carregar(c, {"rel_notas"}, "rel_empenhos",
             [tipo |-> "relatorio", notas |-> form[c].notas,
              empenhos |-> empenhos])

\* naturezas = self.load_naturezas_despesa()
relatorio_load_naturezas(c) ==
    Carregar(c, {"rel_empenhos"}, "rel_naturezas",
             [tipo |-> "relatorio", notas |-> form[c].notas,
              empenhos |-> form[c].empenhos, naturezas |-> naturezas])

\* planos = self.load_planos_internos()
relatorio_load_planos(c) ==
    Carregar(c, {"rel_naturezas"}, "rel_planos",
             [tipo |-> "relatorio", notas |-> form[c].notas,
              empenhos |-> form[c].empenhos, naturezas |-> form[c].naturezas,
              planos |-> planos])

\* secoes = self.load_secoes_requisitantes(), then the totals and the rows.
relatorio_load_secoes(c) ==
    Carregar(c, {"rel_planos"}, "relatorio",
             [tipo |-> "relatorio", notas |-> form[c].notas,
              empenhos |-> form[c].empenhos,
              total_valor_geral |-> TotalValor(form[c].notas, form[c].empenhos),
              total_restante_geral |-> TotalRestante(form[c].notas),
              total_empenhado_geral |-> TotalEmpenhado(form[c].empenhos),
              data |-> Linhas(form[c].notas, form[c].empenhos,
                              form[c].naturezas, form[c].planos, secoes)])

\* Session u1 keeps the ledger (notes of value MaxValor, commitments of value
\* 1, sections deleted) while session u2 generates reports.
Relatorio(c) ==
    \/ relatorio_load_notas(c)
    \/ relatorio_load_empenhos(c)
    \/ relatorio_load_naturezas(c)
    \/ relatorio_load_planos(c)
    \/ relatorio_load_secoes(c)

NextRel ==
    \/ \E n \in NotaNumeros, nd \in NaturezaCodigos, p \in PlanoCodigos :
          AdicionarNota("u1", n, MaxValor, nd, p)
    \/ CarregarFormEmpenho("u1")
    \/ \E n \in NotaNumeros, s \in SecaoCodigos : RegistrarEmpenho("u1", n, s, 1)
    \/ save_empenho_commit("u1")
    \/ \E id \in 1..MaxId : DeletarEmpenho("u1", id, TRUE)
    \/ delete_empenho_update("u1")
    \/ delete_empenho_commit("u1")
    \/ \E s \in SecaoCodigos : delete_secao_requisitante("u1", s)
    \/ Relatorio("u2")

SpecRel == Init /\ [][NextRel]_vars

\* Session u1 adds notes through the form while session u2 deletes natures,
\* registers them again under either plan, and deletes notes.
NextNota ==
    \/ \E p \in PlanosRef, nd \in NaturezasRef : SelecionarPlanoNatureza("u1", p, nd)
    \/ \E n \in NotaNumeros, v \in 0..MaxValor : SalvarNota("u1", n, v)
    \/ \E nd \in NaturezasRef, p \in PlanosRef : save_natureza_despesa("u2", nd, p)
    \/ \E nd \in NaturezasRef : delete_natureza_despesa("u2", nd)
    \/ \E n \in NotaNumeros : DeletarNota("u2", n, TRUE)

SpecNota == InitRef /\ [][NextNota]_vars

\* ------------------------------------------------ "Adicionar Nota": text
\* A text field is a sequence of characters.  ARABIC3 stands for U+0663, a
\* decimal digit outside 0-9: str.isdigit() and \d of a str pattern accept it.
DigitosAscii == {"0", "1", "2", "3", "4", "5", "6", "7", "8", "9"}
DigitosUnicode == {"ARABIC3"}

\* str.isdigit(): at least one character, all of them digits.
isdigit(str) ==
    /\ Len(str) > 0
    /\ \A i \in 1..Len(str) : str[i] \in DigitosAscii \cup DigitosUnicode

\* str.upper(), character by character.
UpperChar(ch) ==
    CASE ch = "n" -> "N"
      [] ch = "c" -> "C"
      [] ch = "x" -> "X"
      [] ch = "a" -> "A"
      [] OTHER -> ch

upper(str) == [i \in 1..Len(str) |-> UpperChar(str[i])]

\* (variant: the length test left out)
validar_ptres_sem_len(ptres) == isdigit(ptres)

validar_ptres(ptres) == isdigit(ptres) /\ Len(ptres) = 6

validar_fonte(fonte) == isdigit(fonte) /\ Len(fonte) = 10

\* re.match(r"^NC\d{6}$", numero): case-sensitive, on the text as typed.
validar_nota_numero(numero) ==
    /\ Len(numero) = 8
    /\ numero[1] = "N"
    /\ numero[2] = "C"
    /\ \A i \in 3..8 : numero[i] \in DigitosAscii \cup DigitosUnicode

\* The texts a caller may type.
Seis == <<"1", "2", "3", "4", "5", "6">>
Prefixos == {<<"N", "C">>, <<"n", "c">>, <<"N", "c">>, <<"X", "X">>}
Corpos ==
    {Seis, SubSeq(Seis, 1, 5), Seis \o <<"7">>,
     SubSeq(Seis, 1, 5) \o <<"a">>, SubSeq(Seis, 1, 5) \o <<"ARABIC3">>}
NumerosDigitados == {<<>>} \cup {p \o b : p \in Prefixos, b \in Corpos}
PtresDigitados == {<<>>} \cup Corpos
FontesDigitadas ==
    {<<>>, Seis \o <<"7", "8", "9", "0">>, Seis \o <<"7", "8", "9">>,
     Seis \o <<"7", "8", "9", "a">>}

\* The row built from the fields of the form (numero is the key).
NotaDoFormulario(f) ==
    [valor |-> f.valor_float, valor_restante |-> f.valor_float,
     natureza_despesa_codigo |-> f.natureza_codigo,
     plano_interno_codigo |-> f.plano_codigo,
     ptres_codigo |-> f.ptres_codigo, fonte_codigo |-> f.fonte_codigo]

\* The submit of "Adicionar Nota" with the texts of form[c]: the chain of
\* validations, then save_nota under numero.upper().
SubmeterNota(c) ==
    LET f == form[c]
    IN /\ pc[c] = "form_nota"
       /\ UNCHANGED seq
       /\ IF f.ptres_codigo = <<>> \/ f.fonte_codigo = <<>> \/ f.numero = <<>>
          THEN UNCHANGED <<db, rt>> /\ Done(c, "campos_obrigatorios")
          ELSE IF ~validar_ptres(f.ptres_codigo)
          THEN UNCHANGED <<db, rt>> /\ Done(c, "ptres_invalido")
          ELSE IF ~validar_fonte(f.fonte_codigo)
          THEN UNCHANGED <<db, rt>> /\ Done(c, "fonte_invalida")
          ELSE IF ~validar_nota_numero(f.numero)
          THEN UNCHANGED <<db, rt>> /\ Done(c, "numero_invalido")
          ELSE IF ~f.prazo_valido
          THEN UNCHANGED <<db, rt>> /\ Done(c, "prazo_invalido")
          ELSE IF f.valor_float <= 0
          THEN UNCHANGED <<db, rt>> /\ Done(c, "valor_invalido")
          ELSE save_nota(c, upper(f.numero), NotaDoFormulario(f))

\* Caller u1 has filled the form of "Adicionar Nota"; the ledger is empty.
InitVal ==
    /\ planos = PlanoCodigos
    /\ naturezas = [nd \in NaturezaCodigos |-> CHOOSE p \in PlanoCodigos : TRUE]
    /\ secoes = SecaoCodigos
    /\ notas = EmptyFn
    /\ empenhos = EmptyFn
    /\ seq = 0
    /\ pc = [c \in Callers |-> IF c = "u1" THEN "form_nota" ELSE "idle"]
    /\ \E numero \in NumerosDigitados, ptres \in PtresDigitados,
          fonte \in FontesDigitadas, prazo_valido \in BOOLEAN,
          valor_float \in {0, 1} :
          form = [c \in Callers |->
                    IF c = "u1"
                    THEN [tipo |-> "nota", numero |-> numero,
                          ptres_codigo |-> ptres, fonte_codigo |-> fonte,
                          prazo_valido |-> prazo_valido,
                          valor_float |-> valor_float,
                          natureza_codigo |-> CHOOSE nd \in NaturezaCodigos : TRUE,
                          plano_codigo |-> CHOOSE p \in PlanoCodigos : TRUE]
                    ELSE NoForm]
    /\ tx = [c \in Callers |-> NoTx]
    /\ msg = NoMsg
    /\ rt = [n \in NotaNumeros |-> NoRT]

NextVal == SubmeterNota("u1")

SpecVal == InitVal /\ [][NextVal]_vars

\* ------------------------------------------------------------ load_notas
\* A text is here the sequence of the code points of its characters.
DoisDigitos(k) == <<48 + (k \div 10), 48 + (k % 10)>>

QuatroDigitos(k) ==
    <<48 + (k \div 1000), 48 + ((k \div 100) % 10),
      48 + ((k \div 10) % 10), 48 + (k % 10)>>

\* datetime.now().strftime("%d/%m/%Y %H:%M:%S"), at minute 0, second 0.
strftime(t) ==
    DoisDigitos(t.dia) \o <<47>> \o DoisDigitos(t.mes) \o <<47>>
        \o QuatroDigitos(t.ano) \o <<32>> \o DoisDigitos(t.hora)
        \o <<58, 48, 48, 58, 48, 48>>

\* Order of two TEXT values of equal length: the first character that
\* differs decides (the separators stand at the same places in both).
MenorTexto(a, b) ==
    \E i \in 1..Len(a) :
        /\ a[i] < b[i]
        /\ \A j \in 1..(i - 1) : a[j] = b[j]

\* The instants at which a note may have been created.
Momentos == [ano : {2024, 2025}, mes : {1, 2}, dia : {1, 2}, hora : {9}]
NotasLista == {"NC000001", "NC000002", "NC000003"}
SemFiltro == ""

\* The notes selected by load_notas(filtro).
Filtradas(filtro) ==
    {n \in DOMAIN notas :
        filtro = SemFiltro \/ notas[n].natureza_despesa_codigo = filtro}

\* ORDER BY data_criacao DESC over the stored texts; equal texts in any order.
OrdenadaDesc(ordem) ==
    \A i, j \in 1..Len(ordem) :
        i < j => ~MenorTexto(notas[ordem[i]].data_criacao,
                             notas[ordem[j]].data_criacao)

\* SELECT ... FROM notas [WHERE natureza_despesa_codigo = %s]
\* ORDER BY data_criacao DESC: the list the page receives.
load_notas(c, filtro) ==
    LET S == Filtradas(filtro)
    IN /\ pc[c] = "idle"
       /\ \E ordem \in [1..Cardinality(S) -> S] :
            /\ \A i, j \in 1..Cardinality(S) : ordem[i] = ordem[j] => i = j
            /\ OrdenadaDesc(ordem)
            /\ form' = [form EXCEPT ![c] =
                   [tipo |-> "lista", filtro |-> filtro,
                    notas |-> [i \in 1..Cardinality(S) |->
                        [numero |-> ordem[i],
                         data_criacao |-> notas[ordem[i]].data_criacao,
                         natureza_despesa_codigo |->
                             notas[ordem[i]].natureza_despesa_codigo,
                         valor_restante |-> notas[ordem[i]].valor_restante]]]]
       /\ pc' = [pc EXCEPT ![c] = "lista"]
       /\ msg' = NoMsg
       /\ UNCHANGED <<db, seq, tx, rt>>

\* Notes stored at some instants, under the natures of InitRef.
InitLista ==
    /\ planos = PlanosRef
    /\ naturezas = [nd \in NaturezasRef |->
                       IF nd = "339039" THEN "PI001" ELSE "PI002"]
    /\ secoes = SecoesRef
    /\ \E N \in SUBSET NotasLista :
         \E t \in [N -> Momentos], nat \in [N -> NaturezasRef] :
            notas = [n \in N |->
                        [valor |-> 1, valor_restante |-> 1,
                         natureza_despesa_codigo |-> nat[n],
                         plano_interno_codigo |-> naturezas[nat[n]],
                         data_criacao |-> strftime(t[n])]]
    /\ empenhos = EmptyFn
    /\ seq = 0
    /\ pc = [c \in Callers |-> "idle"]
    /\ form = [c \in Callers |-> NoForm]
    /\ tx = [c \in Callers |-> NoTx]
    /\ msg = NoMsg
    /\ rt = [n \in NotaNumeros |-> NoRT]

NextLista == \E filtro \in {SemFiltro} \cup NaturezasRef : load_notas("u1", filtro)

SpecLista == InitLista /\ [][NextLista]_vars

\* ------------------------------------------------------------- properties
\* Caller c's save_empenho commits in this step.
SaveCommitted(c) ==
    /\ pc[c] = "emp_inserted"
    /\ pc'[c] = "idle"
    /\ msg' = "sucesso"

\* Caller c's delete_empenho commits in this step.
DeleteCommitted(c) ==
    /\ pc[c] = "del_updated"
    /\ pc'[c] = "idle"
    /\ msg' = "sucesso"

\* Caller c's transaction ends in this step without committing.
RolledBack(c) ==
    /\ pc[c] \in {"emp_inserted", "del_selected", "del_updated"}
    /\ pc'[c] = "idle"
    /\ msg' = "erro"

SaldoNaoNegativo == \A n \in DOMAIN notas : notas[n].valor_restante >= 0

\* C1: every committed createCommitment of value v on note n leaves the stored
\* balance of n at its stored balance just before the commit minus v, and no
\* stored balance is ever negative, whatever the interleaving of the callers.
C1_SaldoMenosValor ==
    /\ [][\A c \in Callers :
            SaveCommitted(c) =>
                notas'[tx[c].numero_nota].valor_restante =
                    notas[tx[c].numero_nota].valor_restante - tx[c].valor]_vars
    /\ []SaldoNaoNegativo

\* C2: a createCommitment that commits on a note on which another commitment
\* was committed before it is checked against the balance stored at that time
\* and computes the new balance from it: it is never larger than the stored
\* balance.
C2_RevalidaSaldoGravado ==
    [][\A c \in Callers :
          (SaveCommitted(c) /\ EmpenhosDe(empenhos, tx[c].numero_nota) # {}) =>
              /\ tx[c].valor <= notas[tx[c].numero_nota].valor_restante
              /\ tx[c].valor_restante =
                     notas[tx[c].numero_nota].valor_restante - tx[c].valor]_vars

\* C3: in every reachable state every note has remaining <= original and
\* original > 0.
C3_RestanteAteOriginal ==
    \A n \in DOMAIN notas :
        /\ notas[n].valor_restante <= notas[n].valor
        /\ notas[n].valor > 0

\* C4: a commitment created on note n from its stored balance R and then
\* deleted, with no other write to n in between, leaves the stored balance of n
\* at R and the commitments of n as they were before the creation.
C4_RoundTrip ==
    \A n \in NotaNumeros :
        rt[n].fase = "desfeito" =>
            /\ n \in DOMAIN notas
            /\ notas[n].valor_restante = rt[n].valor_restante
            /\ EmpenhosDe(empenhos, n) = rt[n].ids

C4_Witness ==
    \E n \in DOMAIN notas :
        /\ rt[n].fase = "desfeito"
        /\ msg = "sucesso"

\* C5: every committed deleteCommitment removes the commitment row and, its
\* UPDATE having matched the note, leaves the stored balance of the note at the
\* balance stored just before the commit plus the commitment's value,
\* whatever happened to the note since the commitment was created.
C5_DeleteDevolve ==
    [][\A c \in Callers :
          DeleteCommitted(c) =>
              /\ tx[c].id \notin DOMAIN empenhos'
              /\ tx[c].atualizou =>
                    /\ tx[c].numero_nota \in DOMAIN notas
                    /\ notas'[tx[c].numero_nota].valor_restante =
                         notas[tx[c].numero_nota].valor_restante + tx[c].valor]_vars

C5_Witness ==
    \E n \in DOMAIN notas :
        /\ rt[n].fase = "desfeito"
        /\ rt[n].ids # {}
        /\ notas[n].valor_restante < notas[n].valor

\* C6: on a note whose loaded balance is the stored one, a commitment of exactly
\* the remaining balance is accepted and its commit leaves remaining = 0; a
\* commitment of the remaining balance plus one cent is rejected with the
\* balance message, inserts no row and leaves the balance unchanged.
C6_FronteiraSaldo ==
    [][/\ \A c \in Callers, n \in DOMAIN notas, s \in SecaoCodigos, v \in Valores :
            ( /\ pc[c] = "form_empenho"
              /\ pc'[c] # "form_empenho"
              /\ n \in DOMAIN form[c].notas
              /\ form[c].notas[n] = notas[n].valor_restante
              /\ v \in {notas[n].valor_restante, notas[n].valor_restante + 1}
              /\ RegistrarEmpenho(c, n, s, v) ) =>
                /\ v = notas[n].valor_restante + 1 =>
                      /\ msg' = "excede_saldo"
                      /\ pc'[c] = "idle"
                      /\ UNCHANGED <<notas, empenhos>>
                /\ (v = notas[n].valor_restante /\ v > 0) =>
                      /\ msg' # "excede_saldo"
                      /\ s \in secoes =>
                            /\ pc'[c] = "emp_inserted"
                            /\ tx'[c].valor = v
                            /\ tx'[c].valor_restante = 0
       /\ \A c \in Callers :
            (SaveCommitted(c) /\ tx[c].valor = tx[c].carregado) =>
                /\ notas'[tx[c].numero_nota].valor_restante = 0
                /\ tx[c].id \in DOMAIN empenhos']_vars

C6_Witness ==
    \E n \in DOMAIN notas :
        /\ rt[n].fase = "criado"
        /\ rt[n].id \in DOMAIN empenhos
        /\ empenhos[rt[n].id].valor = rt[n].valor_restante
        /\ notas[n].valor_restante = 0

\* C7 (as stated): every stored note has remaining > 0.
C7_RestantePositivo == \A n \in DOMAIN notas : notas[n].valor_restante > 0

\* C7 (amended): every stored note has remaining >= 0; 0 is reached when a
\* commitment takes the whole balance.
C7_RestanteNaoNegativo == SaldoNaoNegativo

C7_Witness ==
    \E n \in DOMAIN notas :
        /\ notas[n].valor_restante = 0
        /\ EmpenhosDe(empenhos, n) # {}

\* C8: the two writes of createCommitment and of deleteCommitment reach the
\* stored tables together or not at all: a commitment row appears only in the
\* step that also stores the balance its transaction computed, a row is removed
\* from a surviving note only in the step that also adds its value back, a
\* balance changes only in such a commit, and a transaction that fails (second
\* write, crash between the writes) leaves notes and commitments as they were.
C8_Atomico ==
    [][/\ (notas' # notas \/ empenhos' # empenhos) =>
          \A n \in DOMAIN notas \cap DOMAIN notas' :
            LET novos == EmpenhosDe(empenhos', n) \ EmpenhosDe(empenhos, n)
                idos == EmpenhosDe(empenhos, n) \ EmpenhosDe(empenhos', n)
            IN /\ novos # {} =>
                    \E c \in Callers :
                        /\ SaveCommitted(c)
                        /\ novos = {tx[c].id}
                        /\ empenhos'[tx[c].id].valor = tx[c].valor
                        /\ notas'[n].valor_restante = tx[c].carregado - tx[c].valor
               /\ idos # {} =>
                    \E c \in Callers :
                        /\ DeleteCommitted(c)
                        /\ idos = {tx[c].id}
                        /\ notas'[n].valor_restante =
                             notas[n].valor_restante + empenhos[tx[c].id].valor
               /\ notas'[n].valor_restante # notas[n].valor_restante =>
                    \E c \in Callers :
                        /\ SaveCommitted(c) \/ DeleteCommitted(c)
                        /\ tx[c].numero_nota = n
                        /\ SaveCommitted(c) => novos = {tx[c].id}
                        /\ DeleteCommitted(c) => tx[c].id \notin DOMAIN empenhos'
       /\ \A c \in Callers : RolledBack(c) => UNCHANGED <<notas, empenhos>>]_vars

C8_Witness ==
    /\ msg = "erro"
    /\ seq > 0
    /\ secoes = SecaoCodigos
    /\ DOMAIN empenhos = {}
    /\ \E n \in DOMAIN notas : notas[n].valor_restante = notas[n].valor

\* C9: a note that createNote stores has remaining = original = the positive
\* value that was entered.
C9_NotaNovaSaldoCheio ==
    [][/\ \A n \in DOMAIN notas' \ DOMAIN notas :
            /\ notas'[n].valor > 0
            /\ notas'[n].valor_restante = notas'[n].valor
       /\ msg' = "sucesso" =>
            \A c \in Callers, n \in NotaNumeros \ DOMAIN notas, v \in 0..MaxValor,
              nd \in NaturezaCodigos, p \in PlanoCodigos :
                AdicionarNota(c, n, v, nd, p) =>
                    /\ n \in DOMAIN notas'
                    /\ notas'[n].valor = v
                    /\ notas'[n].valor_restante = v]_vars

C9_Witness ==
    \E n \in DOMAIN notas :
        /\ msg = "sucesso"
        /\ seq = 0
        /\ notas[n].valor = MaxValor
        /\ notas[n].valor_restante = MaxValor

\* An id drawn by an INSERT that has not committed yet.
Pendente(id) ==
    \E c \in Callers : pc[c] = "emp_inserted" /\ tx[c].id = id

\* C10: deleteNote(n) removes n and every commitment of n and nothing else; the
\* ids of removed commitments never come back, and deleteCommitment of an id
\* that is not stored ends with the not-found message and changes nothing.
C10_DeleteNotaCascata ==
    [][/\ \A c \in Callers, n \in NotaNumeros :
            DeletarNota(c, n, TRUE) =>
                /\ n \notin DOMAIN notas'
                /\ EmpenhosDe(empenhos', n) = {}
                /\ notas' = Restrict(notas, DOMAIN notas \ {n})
                /\ empenhos' = Restrict(empenhos,
                       DOMAIN empenhos \ EmpenhosDe(empenhos, n))
       /\ \A id \in 1..seq :
            (id \notin DOMAIN empenhos /\ ~Pendente(id)) =>
                id \notin DOMAIN empenhos'
       /\ \A c \in Callers, id \in 1..MaxId :
            (DeletarEmpenho(c, id, TRUE) /\ id \notin DOMAIN empenhos) =>
                /\ msg' = "nao_encontrado"
                /\ pc'[c] = "idle"
                /\ UNCHANGED db]_vars

C10_Witness ==
    /\ msg = "nao_encontrado"
    /\ "NC000001" \notin DOMAIN notas
    /\ EmpenhosDe(empenhos, "NC000002") # {}
    /\ seq = MaxId

\* C11: deleteNote of a number that is not stored ends with the not-found
\* message, not with success, and leaves the store unchanged.
C11_DeleteNotaNaoEncontrada ==
    [][\A c \in Callers, n \in NotaNumeros \ DOMAIN notas :
          (pc[c] = "idle" /\ DeletarNota(c, n, TRUE)) =>
              /\ msg' = "nao_encontrado"
              /\ UNCHANGED db]_vars

\* C12: deleteCommitment of an id that is not stored ends with the not-found
\* message, leaves every note and every commitment row unchanged, and the
\* caller holds no connection afterwards.
C12_DeleteEmpenhoNaoEncontrado ==
    [][\A c \in Callers, id \in (1..MaxId) \ DOMAIN empenhos :
          (pc[c] = "idle" /\ DeletarEmpenho(c, id, TRUE)) =>
              /\ msg' = "nao_encontrado"
              /\ UNCHANGED <<notas, empenhos>>
              /\ c \notin EmUso']_vars

C12_Witness ==
    /\ msg = "nao_encontrado"
    /\ DOMAIN empenhos # {}
    /\ seq = MaxId
    /\ EmUso = {}

\* C13: a Deletar Nota submit with the confirmation unticked leaves the note
\* and its commitments stored; with the confirmation ticked it removes the
\* note.
C13_ConfirmacaoNota ==
    [][\A c \in Callers, n \in DOMAIN notas :
          /\ (pc[c] = "idle" /\ DeletarNota(c, n, FALSE)) =>
                /\ UNCHANGED db
                /\ msg' = "aviso_confirmacao"
          /\ (pc[c] = "idle" /\ DeletarNota(c, n, TRUE)) =>
                n \notin DOMAIN notas']_vars

C13_Witness ==
    /\ msg = "aviso_confirmacao"
    /\ \E n \in DOMAIN notas : EmpenhosDe(empenhos, n) # {}

\* C14: deleting plan p removes p, the natures of p, the notes that reference
\* one of those natures or p itself, and the commitments of those notes; every
\* other plan, nature, note and commitment stays as it was.
C14_PlanoCascata ==
    [][\A p \in PlanosRef :
          (pc["u1"] = "idle" /\ delete_plano_interno("u1", p)) =>
              LET nds == {x \in DOMAIN naturezas : naturezas[x] = p}
                  N == {n \in DOMAIN notas :
                          \/ notas[n].plano_interno_codigo = p
                          \/ notas[n].natureza_despesa_codigo \in nds}
                  E == {e \in DOMAIN empenhos : empenhos[e].numero_nota \in N}
              IN /\ planos' = planos \ {p}
                 /\ DOMAIN naturezas' = DOMAIN naturezas \ nds
                 /\ \A x \in DOMAIN naturezas' : naturezas'[x] = naturezas[x]
                 /\ DOMAIN notas' = DOMAIN notas \ N
                 /\ \A n \in DOMAIN notas' : notas'[n] = notas[n]
                 /\ DOMAIN empenhos' = DOMAIN empenhos \ E
                 /\ \A e \in DOMAIN empenhos' : empenhos'[e] = empenhos[e]
                 /\ secoes' = secoes]_vars

C14_Witness ==
    /\ msg = "sucesso"
    /\ planos = {"PI002"}
    /\ DOMAIN naturezas = {"339030"}
    /\ seq = MaxId
    /\ Cardinality(DOMAIN notas) = 1
    /\ Cardinality(DOMAIN empenhos) = 1

\* C15: deleting section s sets the section code of every commitment that
\* referenced s to null and deletes no commitment: the ids, each commitment's
\* value and note, and every note are unchanged.
C15_SecaoSetNull ==
    [][\A s \in SecoesRef :
          (pc["u1"] = "idle" /\ delete_secao_requisitante("u1", s)) =>
              /\ s \notin secoes'
              /\ DOMAIN empenhos' = DOMAIN empenhos
              /\ \A e \in DOMAIN empenhos :
                    /\ empenhos'[e].valor = empenhos[e].valor
                    /\ empenhos'[e].numero_nota = empenhos[e].numero_nota
                    /\ empenhos'[e].secao_requisitante_codigo =
                          IF empenhos[e].secao_requisitante_codigo = s
                          THEN NULL
                          ELSE empenhos[e].secao_requisitante_codigo
              /\ notas' = notas]_vars

C15_Witness ==
    /\ msg = "sucesso"
    /\ secoes = {"SR002"}
    /\ \E e \in DOMAIN empenhos : empenhos[e].secao_requisitante_codigo = NULL
    /\ \E e \in DOMAIN empenhos : empenhos[e].secao_requisitante_codigo = "SR002"

\* C16: creating a plan, nature, section or note whose key is already stored
\* ends with the already-exists message naming that key and leaves all tables
\* unchanged.
C16_ChaveDuplicada ==
    [][\A c \in Callers :
          (pc[c] = "idle" /\ pc'[c] = "idle" /\ seq' = seq) =>
            /\ \A p \in planos :
                  save_plano_interno(c, p) =>
                      (msg' = JaExiste(p) /\ UNCHANGED db)
            /\ \A nd \in DOMAIN naturezas, p \in PlanoCodigos :
                  save_natureza_despesa(c, nd, p) =>
                      (msg' = JaExiste(nd) /\ UNCHANGED db)
            /\ \A s \in secoes :
                  save_secao_requisitante(c, s) =>
                      (msg' = JaExiste(s) /\ UNCHANGED db)
            /\ \A n \in DOMAIN notas, v \in {1, MaxValor},
                 nd \in NaturezaCodigos, p \in PlanoCodigos :
                  AdicionarNota(c, n, v, nd, p) =>
                      (msg' = JaExiste(n) /\ UNCHANGED db)]_vars

C16_Witness ==
    /\ msg = JaExiste("NC000001")
    /\ "NC000001" \in DOMAIN notas
    /\ notas["NC000001"].valor_restante < notas["NC000001"].valor
    /\ EmpenhosDe(empenhos, "NC000001") # {}

\* C17: creating a nature whose plan is not stored ends with an outcome other
\* than the already-exists message for the nature code, and stores no nature.
C17_NaturezaSemPlano ==
    [][\A c \in Callers, nd \in NaturezaCodigos \ DOMAIN naturezas,
         p \in PlanoCodigos \ planos :
          (pc[c] = "idle" /\ save_natureza_despesa(c, nd, p)) =>
              /\ msg' # JaExiste(nd)
              /\ naturezas' = naturezas]_vars

\* A text of exactly k digits 0-9.
DigitosAsciiExatos(str, k) ==
    Len(str) = k /\ \A i \in 1..Len(str) : str[i] \in DigitosAscii

\* NC followed by exactly 6 digits 0-9.
NumeroNC(str) ==
    /\ Len(str) = 8
    /\ str[1] = "N"
    /\ str[2] = "C"
    /\ DigitosAsciiExatos(SubSeq(str, 3, 8), 6)

\* C18: with the other fields valid, a note number that is NC plus 6 digits
\* in any letter case is accepted and stored uppercased; any other number is
\* rejected and nothing is stored; every stored number is NC plus 6 digits 0-9.
C18_NumeroNota ==
    [][(pc["u1"] = "form_nota" /\ SubmeterNota("u1")) =>
          LET f == form["u1"]
          IN /\ ( /\ f.ptres_codigo = Seis
                  /\ DigitosAsciiExatos(f.fonte_codigo, 10)
                  /\ f.prazo_valido
                  /\ f.valor_float > 0 ) =>
                    IF NumeroNC(upper(f.numero))
                    THEN /\ msg' = "sucesso"
                         /\ DOMAIN notas' = {upper(f.numero)}
                    ELSE /\ msg' \in {"numero_invalido", "campos_obrigatorios"}
                         /\ notas' = notas
             /\ \A n \in DOMAIN notas' : NumeroNC(n)]_vars

\* A text of exactly k digits, a digit being a character str.isdigit()
\* takes for one.
DigitosExatos(str, k) ==
    Len(str) = k /\ \A i \in 1..Len(str) : str[i] \in DigitosAscii \cup DigitosUnicode

Instante(texto) ==
    <<(texto[7] - 48) * 1000 + (texto[8] - 48) * 100
          + (texto[9] - 48) * 10 + (texto[10] - 48),
      (texto[4] - 48) * 10 + (texto[5] - 48),
      (texto[1] - 48) * 10 + (texto[2] - 48),
      (texto[12] - 48) * 10 + (texto[13] - 48)>>

\* Instant a is strictly later than instant b.
Depois(a, b) ==
    \E i \in 1..4 : a[i] > b[i] /\ \A j \in 1..(i - 1) : a[j] = b[j]

\* C20: the list load_notas returns holds exactly the stored notes (of the
\* filter's nature, if one is given), each once, and a note created strictly
\* later than another one stands before it.
C20_ListaCronologica ==
    [][\A filtro \in {SemFiltro} \cup NaturezasRef :
          (pc["u1"] = "idle" /\ load_notas("u1", filtro)) =>
              LET r == form'["u1"].notas
              IN /\ Len(r) = Cardinality(Filtradas(filtro))
                 /\ {r[i].numero : i \in 1..Len(r)} = Filtradas(filtro)
                 /\ \A i, j \in 1..Len(r) :
                        Depois(Instante(r[i].data_criacao),
                               Instante(r[j].data_criacao)) => i < j]_vars

\* ------------------------------------------------------------------ pool
\* A session inside a DataService method (between its get_connection and its
\* finally clause).
EmOperacao(c) == pc[c] \in {"emp_inserted", "del_selected", "del_updated"}

\* C21: a session holds a pooled connection exactly while one of its
\* operations is in progress: one connection from get_connection on, none
\* after any exit (commit, integrity or other storage error, not found); with
\* no operation in progress no connection is checked out, and never more than
\* maxconn are.
C21_PoolDisciplina ==
    /\ \A c \in DOMAIN pc : EmOperacao(c) <=> c \in EmUso
    /\ (\A c \in DOMAIN pc : ~EmOperacao(c)) => Cardinality(EmUso) = 0
    /\ Cardinality(EmUso) <= maxconn

\* An operation just ended in a storage error and its session holds no
\* connection, while the other connections but one are still checked out.
C21_Witness ==
    /\ Cardinality(EmUso) = maxconn - 1
    /\ msg = "erro"
    /\ \E c \in DOMAIN pc : pc[c] = "idle" /\ c \notin EmUso

\* C29: with maxconn connections checked out, an operation started by a
\* further session fails at once with the no-connection error: nothing is
\* written, no id is drawn, the set of checked-out connections is the same;
\* and every operation in progress can take its next step, or waits for a
\* row lock whose holder can commit.
C29_PoolEsgotado ==
    [][Cardinality(EmUso) = maxconn =>
        /\ \A c \in DOMAIN pc \ EmUso :
              /\ pc[c] = "form_empenho" =>
                    \A n \in DOMAIN form[c].notas, s \in form[c].secoes :
                      \A v \in 1..form[c].notas[n] :
                        RegistrarEmpenho(c, n, s, v) =>
                            /\ msg' = "sem_conexao"
                            /\ UNCHANGED <<db, seq>>
                            /\ EmUso' = EmUso
              /\ pc[c] = "idle" =>
                    /\ \A id \in 1..MaxId :
                          DeletarEmpenho(c, id, TRUE) =>
                              /\ msg' = "sem_conexao"
                              /\ UNCHANGED <<db, seq>>
                              /\ EmUso' = EmUso
                    /\ CarregarFormEmpenho(c) =>
                          /\ msg' = "sem_conexao"
                          /\ UNCHANGED <<db, seq>>
                          /\ EmUso' = EmUso
        /\ \A c \in EmUso :
              \/ ENABLED (\/ save_empenho_commit(c)
                          \/ delete_empenho_update(c)
                          \/ delete_empenho_commit(c))
              \/ \E d \in EmUso \ {c} :
                    /\ pc[d] = "del_updated"
                    /\ ENABLED delete_empenho_commit(d)]_vars

\* The pool exhausted and the further operation refused.
C29_Witness ==
    /\ Cardinality(EmUso) = maxconn
    /\ msg = "sem_conexao"
    /\ \E c \in DOMAIN pc : pc[c] = "idle" /\ c \notin EmUso

\* ---------------------------------------------------------------- report
RECURSIVE Ponderada(_, _)
\* 1 * quantos[1] + ... + top * quantos[top]
Ponderada(quantos, top) ==
    IF top = 0 THEN 0 ELSE top * quantos[top] + Ponderada(quantos, top - 1)

\* The notes read by a report that carry the original value v / the balance v,
\* and the commitments read of value v.
NotasDeValor(r, v) == {n \in DOMAIN r.notas : r.notas[n].valor = v}
NotasDeRestante(r, v) == {n \in DOMAIN r.notas : r.notas[n].valor_restante = v}
EmpenhosDeValor(r, v) == {e \in DOMAIN r.empenhos : r.empenhos[e].valor = v}

\* C22: the three grand totals of a generated report are the sum of the
\* original values of the notes it read, each note once whatever its number
\* of commitment rows, the sum of their balances, and the sum of the values
\* of all the commitments it read.
C22_TotaisGerais ==
    \A c \in DOMAIN pc :
        pc[c] = "relatorio" =>
            LET r == form[c] IN
            /\ r.total_valor_geral =
                  Ponderada([v \in 1..MaxValor |->
                               Cardinality(NotasDeValor(r, v))], MaxValor)
            /\ r.total_restante_geral =
                  Ponderada([v \in 1..MaxValor |->
                               Cardinality(NotasDeRestante(r, v))], MaxValor)
            /\ r.total_empenhado_geral =
                  Ponderada([v \in 1..MaxValor |->
                               Cardinality(EmpenhosDeValor(r, v))], MaxValor)

\* A report over a note with two commitment rows and another note.
C22_Witness ==
    \E c \in DOMAIN pc :
        /\ pc[c] = "relatorio"
        /\ Cardinality(DOMAIN form[c].notas) = 2
        /\ \E n \in DOMAIN form[c].notas :
              Cardinality(EmpenhosDe(form[c].empenhos, n)) = 2

\* The rows of a report that show note n.
LinhasDaNota(r, n) == {k \in DOMAIN r.data : r.data[k].numero = n}

\* C23: a report has, for each note it read, one row with an empty commitment
\* value and section 'N/A' when it read no commitment of the note, else one
\* row per commitment of the note, with the commitment's value and with
\* section 'N/A' when the commitment has no section; the number of rows is the
\* sum over the notes of max(1, number of commitments).
C23_LinhasDoRelatorio ==
    \A c \in DOMAIN pc :
        pc[c] = "relatorio" =>
            LET r == form[c]
                sem == {n \in DOMAIN r.notas : EmpenhosDe(r.empenhos, n) = {}}
                com == DOMAIN r.notas \ sem
            IN
            /\ \A n \in sem :
                  /\ Cardinality(LinhasDaNota(r, n)) = 1
                  /\ \A k \in LinhasDaNota(r, n) :
                        /\ r.data[k].valor_empenho = <<>>
                        /\ r.data[k].secao = NA
            /\ \A n \in com :
                  /\ Cardinality(LinhasDaNota(r, n)) =
                        Cardinality(EmpenhosDe(r.empenhos, n))
                  /\ \A e \in EmpenhosDe(r.empenhos, n) :
                        /\ <<n, e>> \in DOMAIN r.data
                        /\ r.data[<<n, e>>].valor_empenho = <<r.empenhos[e].valor>>
                        /\ r.empenhos[e].secao_requisitante_codigo = NULL =>
                              r.data[<<n, e>>].secao = NA
            /\ Cardinality(DOMAIN r.data) =
                  Cardinality(sem)
                  + Cardinality({e \in DOMAIN r.empenhos :
                                   r.empenhos[e].numero_nota \in com})

\* A report with a note without commitments and a commitment without section.
C23_Witness ==
    \E c \in DOMAIN pc :
        /\ pc[c] = "relatorio"
        /\ \E k \in DOMAIN form[c].data : form[c].data[k].valor_empenho = <<>>
        /\ \E e \in DOMAIN form[c].empenhos :
              /\ form[c].empenhos[e].secao_requisitante_codigo = NULL
              /\ form[c].empenhos[e].numero_nota \in DOMAIN form[c].notas

\* C26: every generated report is coherent although commitments are created
\* and deleted while it reads: each note it shows has balance = original
\* value - the commitments it shows for the note, and its totals satisfy
\* original = balance + committed.
C26_RelatorioCoerente ==
    \A c \in DOMAIN pc :
        pc[c] = "relatorio" =>
            LET r == form[c] IN
            /\ \A n \in DOMAIN r.notas :
                  r.notas[n].valor_restante =
                      r.notas[n].valor
                      - Soma([e \in DOMAIN r.empenhos |-> r.empenhos[e].valor],
                             EmpenhosDe(r.empenhos, n))
            /\ r.total_valor_geral =
                  r.total_restante_geral + r.total_empenhado_geral

\* --------------------------------------------------- orphaned commitment
\* C24: a delete_empenho that reports success has added the commitment's
\* value to the balance of its note, which exists; when the UPDATE matches no
\* note the operation ends in an error instead.
C24_DeleteSemNotaReportado ==
    [][\A c \in Callers :
          (pc[c] = "del_updated" /\ pc'[c] = "idle" /\ msg' = "sucesso") =>
              /\ tx[c].numero_nota \in DOMAIN notas
              /\ tx[c].numero_nota \in DOMAIN notas'
              /\ notas'[tx[c].numero_nota].valor_restante =
                    notas[tx[c].numero_nota].valor_restante + tx[c].valor]_vars

\* ----------------------------------------------------------- conservation
\* C25: in every reachable state, whatever the interleaving of the sessions'
\* commitment creations and deletions, each stored note has original value =
\* balance + the sum of the values of its stored commitments.
C25_Conservacao ==
    \A n \in DOMAIN notas :
        notas[n].valor =
            notas[n].valor_restante
            + Soma([e \in DOMAIN empenhos |-> empenhos[e].valor],
                   EmpenhosDe(empenhos, n))

\* --------------------------------------------------- referential integrity
\* Every stored reference points to a stored row.
Integridade ==
    /\ \A nd \in DOMAIN naturezas : naturezas[nd] \in planos
    /\ \A n \in DOMAIN notas :
          /\ notas[n].natureza_despesa_codigo \in DOMAIN naturezas
          /\ notas[n].plano_interno_codigo \in planos
    /\ \A e \in DOMAIN empenhos :
          /\ empenhos[e].numero_nota \in DOMAIN notas
          /\ \/ empenhos[e].secao_requisitante_codigo = NULL
             \/ empenhos[e].secao_requisitante_codigo \in secoes

\* C27: in every reachable state each nature's plan, each note's nature and
\* plan, and each commitment's note exist, and each commitment's section is
\* null or exists; and a note or commitment submitted with a reference that
\* was deleted after its form was loaded is not stored, changes no balance and
\* ends without success.
C27_IntegridadeReferencial ==
    /\ []Integridade
    /\ [][\A c \in Callers :
            /\ (pc[c] = "idle" /\ pc'[c] = "idle" /\ seq' = seq) =>
                  \A n \in NotaNumeros, nd \in NaturezaCodigos, p \in PlanoCodigos :
                      (nd \notin DOMAIN naturezas \/ p \notin planos) =>
                          \A v \in 1..MaxValor :
                              AdicionarNota(c, n, v, nd, p) =>
                                  /\ UNCHANGED <<notas, empenhos>>
                                  /\ msg' # "sucesso"
            /\ pc[c] = "form_empenho" =>
                  \A n \in DOMAIN form[c].notas, s \in form[c].secoes :
                      (n \notin DOMAIN notas \/ s \notin secoes) =>
                          \A v \in 1..MaxValor :
                              RegistrarEmpenho(c, n, s, v) =>
                                  /\ UNCHANGED <<notas, empenhos>>
                                  /\ pc'[c] = "idle"
                                  /\ msg' # "sucesso"]_vars

\* A note was just refused for its deleted nature or plan while the other
\* session still holds a commitment form loaded with a note.
C27_Witness ==
    /\ msg = JaExiste("NC000001")
    /\ "NC000001" \notin DOMAIN notas
    /\ \E c \in Callers : pc[c] = "form_empenho"

\* ------------------------------------------------------- plan of the note
\* C28: every stored note's plan is the plan of its stored nature, whatever
\* plan and nature the form let the session submit.
C28_PlanoDaNatureza ==
    \A n \in DOMAIN notas :
        /\ notas[n].natureza_despesa_codigo \in DOMAIN naturezas
        /\ naturezas[notas[n].natureza_despesa_codigo] =
              notas[n].plano_interno_codigo

\* ------------------------------------------------------------------ frame
\* The rows of the notes other than n and of their commitments are the same
\* before and after the step, and so are the reference tables.
OutrasNotasIguais(n) ==
    /\ \A m \in DOMAIN notas \ {n} : m \in DOMAIN notas' /\ notas'[m] = notas[m]
    /\ \A m \in DOMAIN notas' \ {n} : m \in DOMAIN notas
    /\ \A e \in DOMAIN empenhos :
          empenhos[e].numero_nota # n =>
              e \in DOMAIN empenhos' /\ empenhos'[e] = empenhos[e]
    /\ \A e \in DOMAIN empenhos' :
          empenhos'[e].numero_nota # n => e \in DOMAIN empenhos
    /\ UNCHANGED <<planos, naturezas, secoes>>

\* C30: no step changes the original value of a note that stays stored; and
\* every step of creating or deleting a commitment of note n (rejected,
\* failed or committed) leaves the balance, the original value and the
\* commitments of every other note, and the plan, nature and section tables,
\* as they were.
C30_Frame ==
    [][/\ \A n \in DOMAIN notas :
             n \in DOMAIN notas' => notas'[n].valor = notas[n].valor
       /\ \A c \in Callers :
             /\ (pc[c] = "form_empenho" /\ pc'[c] # "form_empenho") =>
                   UNCHANGED db
             /\ (pc[c] \in {"emp_inserted", "del_selected", "del_updated"}
                    /\ pc'[c] # pc[c]) =>
                   OutrasNotasIguais(tx[c].numero_nota)
             /\ (pc[c] = "idle" /\ pc'[c] = "del_selected") =>
                   UNCHANGED db]_vars

\* A commitment of one note was stored while the other note, untouched,
\* keeps its full balance.
C30_Witness ==
    /\ Cardinality(DOMAIN notas) = 2
    /\ \E e \in DOMAIN empenhos, m \in DOMAIN notas :
          /\ empenhos[e].numero_nota # m
          /\ notas[m].valor_restante = notas[m].valor
          /\ notas[empenhos[e].numero_nota].valor_restante
                < notas[empenhos[e].numero_nota].valor

====
